---- MODULE Spec2Model ----
(***************************************************************************)
(* A model of packagedcode/opam.py: the line-oriented opam manifest parser *)
(* (parse_opam, clean_data and the three line regular expressions) and the *)
(* record builder (build_opam_package).                                    *)
(*                                                                         *)
(* A Python str is modelled as a sequence of one-character strings, a file *)
(* as the sequence of lines readlines() returns (each line keeps its       *)
(* trailing "\n").  A value of the field mapping is tagged with its Python *)
(* type: Str(s), List(l) (a list of str), Deps(l) (a list of Opam) or      *)
(* NoneVal.                                                                *)
(***************************************************************************)
EXTENDS Integers, Sequences, FiniteSets, TLC

VARIABLES lines, i, opam_data, pc, package

vars == <<lines, i, opam_data, pc, package>>

----------------------------------------------------------------------------
(* Python str primitives                                                   *)

\* A str literal as the sequence of its characters.
Chars(s) == [k \in 1..Len(s) |-> SubSeq(s, k, k)]

Min(S) == CHOOSE x \in S : \A y \in S : x <= y
Max(S) == CHOOSE x \in S : \A y \in S : y <= x

\* The characters str.strip() removes and the regular expression \s matches.
Whitespace == {" ", "\t", "\n", "\r", "\f"}

\* str.strip(chars): drop the leading and trailing characters that are in cs.
Strip(s, cs) ==
    LET keep == {k \in 1..Len(s) : s[k] \notin cs}
    IN  IF keep = {} THEN <<>> ELSE SubSeq(s, Min(keep), Max(keep))

\* str.strip()
StripWS(s) == Strip(s, Whitespace)

\* str.replace(c, ''), c one character
Replace(s, c) == SelectSeq(s, LAMBDA x : x # c)

\* sub in s
Contains(s, sub) ==
    \E k \in 1..(Len(s) - Len(sub) + 1) : SubSeq(s, k, k + Len(sub) - 1) = sub

\* str.split(sep), sep not empty
RECURSIVE Split(_, _)
Split(s, sep) ==
    LET hits == {k \in 1..(Len(s) - Len(sep) + 1) : SubSeq(s, k, k + Len(sep) - 1) = sep}
    IN  IF hits = {} THEN <<s>>
        ELSE <<SubSeq(s, 1, Min(hits) - 1)>>
             \o Split(SubSeq(s, Min(hits) + Len(sep), Len(s)), sep)

\* The text a greedy \s* leaves: s without its leading whitespace.
SkipSpaces(s) ==
    LET keep == {k \in 1..Len(s) : s[k] \notin Whitespace}
    IN  IF keep = {} THEN <<>> ELSE SubSeq(s, Min(keep), Len(s))

\* The text a greedy (.*) takes: s up to its first line break.
DotStar(s) ==
    LET nl == {k \in 1..Len(s) : s[k] = "\n"}
    IN  IF nl = {} THEN s ELSE SubSeq(s, 1, Min(nl) - 1)

----------------------------------------------------------------------------
(* Values of the field mapping                                             *)

Str(s) == [kind |-> "str", v |-> s]
List(l) == [kind |-> "list", v |-> l]
Deps(l) == [kind |-> "deps", v |-> l]
NoneVal == [kind |-> "none", v |-> <<>>]

EmptyData == [k \in {} |-> NoneVal]

\* opam_data[key] = value
Put(data, key, value) ==
    [k \in (DOMAIN data) \cup {key} |-> IF k = key THEN value ELSE data[k]]

\* package_data.get(key)
Get(data, key) == IF key \in DOMAIN data THEN data[key] ELSE NoneVal

\* Python truth of a mapping value: None, '' and [] are false.
Truthy(x) == x.kind # "none" /\ x.v # <<>>

\* class Opam: one entry of a depends block.
Opam(name, version) == [name |-> name, version |-> version]

\* Opam.purl: PackageURL(type='opam', name=self.name), the version left out.
purl(dep) == [type |-> "opam", name |-> dep.name]

----------------------------------------------------------------------------
(* The regular expressions                                                 *)

NoMatch == [matched |-> FALSE, key |-> <<>>, value |-> <<>>]

\* (?P<key>^(.+?)) c (?P<value>(.*)) with \s* after c when spaces is TRUE:
\* the key is the shortest non-empty prefix before a c, "." matches no "\n".
KeyValueMatch(s, c, spaces) ==
    LET at == {k \in 2..Len(s) : s[k] = c /\ \A j \in 1..(k - 1) : s[j] # "\n"}
    IN  IF at = {} THEN NoMatch
        ELSE LET k == Min(at)
                 rest == SubSeq(s, k + 1, Len(s))
             IN  [matched |-> TRUE,
                  key |-> SubSeq(s, 1, k - 1),
                  value |-> DotStar(IF spaces THEN SkipSpaces(rest) ELSE rest)]

parse_file_line(line) == KeyValueMatch(line, ":", TRUE)

parse_checksum(s) == KeyValueMatch(s, "=", FALSE)

\* The class [A-z0-9\-]: the range A-z also holds [ \ ] ^ _ and the grave
\* accent (which no TLA+ string can hold, so it is left out of the alphabet).
NameChars ==
    LET cs == Chars("ABCDEFGHIJKLMNOPQRSTUVWXYZ[\\]^_abcdefghijklmnopqrstuvwxyz0123456789-")
    IN  {cs[k] : k \in 1..Len(cs)}

NoDep == [matched |-> FALSE, name |-> <<>>, version |-> <<>>]

\* ^\s*\"(?P<name>[A-z0-9\-]*)\"\s*(?P<version>(.*))
parse_dep(line) ==
    LET s == SkipSpaces(line)
    IN  IF s = <<>> \/ s[1] # "\"" THEN NoDep
        ELSE LET body == Tail(s)
                 stop == {k \in 1..Len(body) : body[k] \notin NameChars}
             IN  IF stop = {} \/ body[Min(stop)] # "\"" THEN NoDep
                 ELSE [matched |-> TRUE,
                       name |-> SubSeq(body, 1, Min(stop) - 1),
                       version |-> DotStar(SkipSpaces(SubSeq(body, Min(stop) + 1, Len(body))))]

----------------------------------------------------------------------------
(* clean_data                                                              *)

clean_data(data) ==
    StripWS(Replace(Replace(Replace(Replace(data, "'"), "\""), "["), "]"))

----------------------------------------------------------------------------
(* parse_opam: the body of the loop over the lines                         *)

\* What one iteration leaves: the mapping, and whether it raised.
Ok(data) == [raised |-> FALSE, data |-> data]
Raised(data) == [raised |-> TRUE, data |-> data]

\* description: every following line, up to and with the first holding """.
RECURSIVE DescriptionLoop(_, _, _)
DescriptionLoop(ls, j, value) ==
    IF j > Len(ls) THEN value
    ELSE LET more == value \o <<" ">> \o StripWS(ls[j])
         IN  IF Contains(ls[j], Chars("\"\"\"")) THEN more
             ELSE DescriptionLoop(ls, j + 1, more)

\* MaintainerValue with the split made on the space alone: C4 tells the two
\* apart.
MaintainerValueBySpace(value) ==
    Split(Strip(value, {"[", "\"", "]", " "}), <<" ">>)

\* maintainer: strip [ " ] and spaces at both ends, split on quote-space-quote.
MaintainerValue(value) ==
    Split(Strip(value, {"[", "\"", "]", " "}), Chars("\" \""))

\* authors, a [ on the line: every following line, up to and with the first
\* holding ].
RECURSIVE AuthorsLoop(_, _, _)
AuthorsLoop(ls, j, value) ==
    IF j > Len(ls) THEN value
    ELSE LET more == value \o <<" ">> \o StripWS(ls[j])
         IN  IF Contains(ls[j], <<"]">>) THEN more
             ELSE AuthorsLoop(ls, j + 1, more)

AuthorsValue(ls, n, value) ==
    Split(IF Contains(ls[n], <<"[">>)
          THEN Strip(AuthorsLoop(ls, n + 1, value), {"[", "\"", "]", " "})
          ELSE clean_data(value),
          Chars("\" \""))

\* DepVersion without the replace of the double quotes: C1 tells the two
\* apart.
DepVersionQuoted(text) == Strip(text, {"{", " ", "}"})

\* version=parsed_dep.group('version').strip('{ } ').replace('"', '')
DepVersion(text) == Replace(Strip(text, {"{", " ", "}"}), "\"")

\* depends: the following lines before the first holding ], those that match.
RECURSIVE DependsLoop(_, _, _)
DependsLoop(ls, j, value) ==
    IF j > Len(ls) \/ Contains(ls[j], <<"]">>) THEN value
    ELSE LET parsed_dep == parse_dep(ls[j])
         IN  DependsLoop(ls, j + 1,
                 IF parsed_dep.matched
                 THEN Append(value, Opam(StripWS(parsed_dep.name),
                                         DepVersion(parsed_dep.version)))
                 ELSE value)

DependsValue(ls, n) == DependsLoop(ls, n + 1, <<>>)

\* SrcStep that never reads the following line: C6 tells the two apart.
SrcStepSameLine(ls, n, data, key, value) ==
    Ok(Put(data, key, Str(clean_data(value))))

\* src: an empty value is read from lines[i+1], which raises IndexError on
\* the last line of the file.
SrcStep(ls, n, data, key, value) ==
    IF value # <<>> THEN Ok(Put(data, key, Str(clean_data(value))))
    ELSE IF n + 1 > Len(ls) THEN Raised(data)
    ELSE Ok(Put(data, key, Str(clean_data(StripWS(ls[n + 1])))))

\* ChecksumEntry that stores the digest under checksum instead of under the
\* algorithm's key: C3 tells the two apart.
ChecksumEntryNested(data, parsed_checksum) ==
    Put(data, Chars("checksum"), Str(clean_data(StripWS(parsed_checksum.value))))

\* One digest: both groups cleaned, stored under the algorithm's own key.
ChecksumEntry(data, parsed_checksum) ==
    Put(data, clean_data(StripWS(parsed_checksum.key)),
              Str(clean_data(StripWS(parsed_checksum.value))))

\* ChecksumLoop with the match checked before use, as in the single-line
\* branch: C8 tells the two apart.
RECURSIVE ChecksumLoopGuarded(_, _, _)
ChecksumLoopGuarded(ls, j, data) ==
    IF j > Len(ls) THEN Ok(data)
    ELSE LET checksum == Strip(ls[j], {"\"", " "})
         IN  IF Contains(checksum, <<"]">>) THEN Ok(data)
             ELSE ChecksumLoopGuarded(ls, j + 1,
                      IF parse_checksum(checksum).matched
                      THEN ChecksumEntry(data, parse_checksum(checksum))
                      ELSE data)

\* checksum, a [ on the line: the following lines before the first holding ];
\* the match is used unguarded, so a line without = raises AttributeError.
RECURSIVE ChecksumLoop(_, _, _)
ChecksumLoop(ls, j, data) ==
    IF j > Len(ls) THEN Ok(data)
    ELSE LET checksum == Strip(ls[j], {"\"", " "})
         IN  IF Contains(checksum, <<"]">>) THEN Ok(data)
             ELSE IF ~parse_checksum(checksum).matched THEN Raised(data)
             ELSE ChecksumLoop(ls, j + 1, ChecksumEntry(data, parse_checksum(checksum)))

\* checksum, no [ on the line: the same split of the value, guarded.
ChecksumLine(data, value) ==
    LET parsed_checksum == parse_checksum(Strip(value, {"\"", " "}))
    IN  IF parsed_checksum.matched THEN ChecksumEntry(data, parsed_checksum) ELSE data

\* The loop body for line n (counted from 1) of ls.
ProcessLine(ls, n, data) ==
    LET line == ls[n]
        parsed_line == parse_file_line(line)
        key == StripWS(parsed_line.key)
        value == IF key = Chars("description") THEN DescriptionLoop(ls, n + 1, <<>>)
                 ELSE StripWS(parsed_line.value)
        stored == Put(data, key, Str(clean_data(value)))
    IN  IF ~parsed_line.matched THEN Ok(data)
        ELSE IF key = Chars("maintainer") THEN Ok(Put(stored, key, List(MaintainerValue(value))))
        ELSE IF key = Chars("authors") THEN Ok(Put(stored, key, List(AuthorsValue(ls, n, value))))
        ELSE IF key = Chars("depends") THEN Ok(Put(stored, key, Deps(DependsValue(ls, n))))
        ELSE IF key = Chars("src") THEN SrcStep(ls, n, stored, key, value)
        ELSE IF key = Chars("checksum")
             THEN IF Contains(line, <<"[">>) THEN ChecksumLoop(ls, n + 1, stored)
                  ELSE Ok(ChecksumLine(stored, value))
        ELSE Ok(stored)

----------------------------------------------------------------------------
(* build_opam_package                                                      *)

\* for x in (package_data.get(key) or []): a str is walked by character.
Items(x) ==
    IF ~Truthy(x) THEN <<>>
    ELSE IF x.kind \in {"list", "deps"} THEN x.v
    ELSE [k \in 1..Len(x.v) |-> <<x.v[k]>>]

\* dep.purl on a character of a str raises AttributeError.
BuildRaises(package_data) ==
    LET deps == Get(package_data, Chars("depends"))
    IN  Truthy(deps) /\ deps.kind = "str"

DependentPackage(dep) ==
    [purl |-> purl(dep), requirement |-> dep.version, scope |-> "dependency",
     is_runtime |-> TRUE, is_optional |-> FALSE, is_resolved |-> FALSE]

\* Description by the length comparison of the dead branch, the longer of
\* the two: C2 tells the two apart.
DescriptionLonger(summary, description) ==
    IF Truthy(summary) /\ Truthy(description)
    THEN IF Len(summary.v) > Len(description.v) THEN summary ELSE description
    ELSE IF Truthy(summary) THEN summary
    ELSE description

\* The description: the synopsis when there is one.
Description(summary, description) ==
    IF Truthy(summary) THEN summary
    ELSE IF Truthy(summary) /\ Truthy(description)
         THEN IF Len(summary.v) > Len(description.v) THEN summary ELSE description
    ELSE description

AuthorParty(author) ==
    [type |-> "person", name |-> Str(author), email |-> NoneVal, role |-> "author"]

MaintainerParty(maintainer) ==
    [type |-> "person", name |-> NoneVal, email |-> Str(maintainer), role |-> "maintainer"]

Parties(package_data) ==
    LET authors == Items(Get(package_data, Chars("authors")))
        maintainers == Items(Get(package_data, Chars("maintainer")))
    IN  [k \in 1..Len(authors) |-> AuthorParty(authors[k])]
        \o [k \in 1..Len(maintainers) |-> MaintainerParty(maintainers[k])]

build_opam_package(package_data) ==
    LET deps == Items(Get(package_data, Chars("depends")))
    IN  [name |-> Get(package_data, Chars("name")),
         vcs_url |-> Get(package_data, Chars("dev-repo")),
         homepage_url |-> Get(package_data, Chars("homepage")),
         download_url |-> Get(package_data, Chars("src")),
         sha1 |-> Get(package_data, Chars("sha1")),
         md5 |-> Get(package_data, Chars("md5")),
         sha256 |-> Get(package_data, Chars("sha256")),
         sha512 |-> Get(package_data, Chars("sha512")),
         bug_tracking_url |-> Get(package_data, Chars("bug-reports")),
         declared_license |-> Get(package_data, Chars("license")),
         description |-> Description(Get(package_data, Chars("synopsis")),
                                     Get(package_data, Chars("description"))),
         parties |-> Parties(package_data),
         dependencies |-> [k \in 1..Len(deps) |-> DependentPackage(deps[k])]]

NoPackage == [none |-> TRUE]

----------------------------------------------------------------------------
(* The state machine: parse(location) = build_opam_package(parse_opam(...)) *)

\* One iteration of the loop of parse_opam over the lines.
ParseLine ==
    /\ pc = "parse_opam"
    /\ i < Len(lines)
    /\ LET r == ProcessLine(lines, i + 1, opam_data)
       IN  /\ opam_data' = r.data
           /\ pc' = IF r.raised THEN "parse_raised" ELSE "parse_opam"
    /\ i' = i + 1
    /\ UNCHANGED <<lines, package>>

\* return opam_data
Return ==
    /\ pc = "parse_opam"
    /\ i = Len(lines)
    /\ pc' = "build"
    /\ UNCHANGED <<lines, i, opam_data, package>>

\* parse: return build_opam_package(package_data)
Build ==
    /\ pc = "build"
    /\ IF BuildRaises(opam_data)
       THEN pc' = "build_raised" /\ UNCHANGED package
       ELSE pc' = "done" /\ package' = build_opam_package(opam_data)
    /\ UNCHANGED <<lines, i, opam_data>>

Next == ParseLine \/ Return \/ Build

\* A line of a manifest, with its line break.
Line(s) == Chars(s) \o <<"\n">>

\* The files of at most n lines drawn from the set U.
Files(U, n) == UNION {[1..m -> U] : m \in 0..n}

MaxLines == 3

InitOn(U) ==
    /\ lines \in Files(U, MaxLines)
    /\ i = 0
    /\ opam_data = EmptyData
    /\ pc = "parse_opam"
    /\ package = NoPackage

\* Manifests with a name, a synopsis, a description, a src and a maintainer.
FieldLines ==
    {Line("name: \"n\""),
     Line("synopsis: \"short\""),
     Line("synopsis: \"\""),
     Line("description: \"\"\""),
     Line("longer text"),
     Line("see: x \"\"\""),
     Line("src:"),
     Line("src: \"u\""),
     Line("  \"https://x\""),
     Line("maintainer: \"o'b\""),
     Line("# comment")}

Init == InitOn(FieldLines)

Spec == Init /\ [][Next]_vars

\* Manifests with depends blocks: the two entries of the module's sample,
\* entries without a constraint, lines that match no entry, terminators.
DependsLines ==
    {Line("depends: ["),
     Line("depends: [\"x\"]"),
     Line("  \"ocaml\" {= \"4.11.0\" & post}"),
     Line("  \"base-unix\" {post}"),
     Line("\"a\""),
     Line("\"c\" {os: \"x\"}"),
     Line("\"b\" {>= \"1\"} ]"),
     Line("  \"Xavier Leroy\""),
     Line("]"),
     Line("name: \"n\"")}

InitDepends == InitOn(DependsLines)

SpecDepends == InitDepends /\ [][Next]_vars

\* Manifests with checksum fields, in a block and on one line, with and
\* without the = of a digest.
ChecksumLines ==
    {Line("checksum: ["),
     Line("checksum: \"md5=ab\""),
     Line("checksum: \"md5ab\""),
     Line("  \"md5=ab\""),
     Line("  \"sha1=cd\""),
     Line("\"sha512=01\""),
     Line("  \"md5ab\""),
     Line("]"),
     Line("name: \"n\""),
     Line("md5: zz"),
     Line("depends: [")}

InitChecksum == InitOn(ChecksumLines)

SpecChecksum == InitChecksum /\ [][Next]_vars

\* Manifests with maintainer and authors fields in their layouts.
PartyLines ==
    {Line("maintainer: \"a@x\" \"b@x\""),
     Line("maintainer: [\"a@x\" \"b@x\"]"),
     Line("maintainer: \"a@x\""),
     Line("maintainer: \"\" \"b@x\""),
     Line("maintainer: \"a@x\" \"\" \"b@x\""),
     Line("authors: \"A\" \"B\""),
     Line("authors: [\"A\" \"B\"]"),
     Line("authors: \"A\""),
     Line("authors: ["),
     Line("  \"A\""),
     Line("  \"B\""),
     Line("]"),
     Line("name: \"n\"")}

InitParties == InitOn(PartyLines)

SpecParties == InitParties /\ [][Next]_vars

----------------------------------------------------------------------------
(* What the properties below read off a manifest                           *)

\* In every state with i >= 1 the loop has handled line i, and opam_data is
\* the mapping that iteration left (i stops at a line that raised).

\* The line is a key: value line with this key.
IsField(line, name) ==
    parse_file_line(line).matched /\ StripWS(parse_file_line(line).key) = Chars(name)

\* The same-line value of a field line.
ValueOf(line) == StripWS(parse_file_line(line).value)

Holds(line, c) == \E k \in 1..Len(line) : line[k] = c

\* The k-th smallest element of a set of numbers.
Kth(S, k) == CHOOSE x \in S : Cardinality({y \in S : y < x}) = k - 1

\* The common cleaning step: no ' " [ ] anywhere, no whitespace around.
Quoting == {"'", "\"", "[", "]"}
Cleaned(s) == StripWS(SelectSeq(s, LAMBDA c : c \notin Quoting))

\* The first line after line n that holds a ], or one past the last line.
BlockEnd(ls, n) ==
    Min({j \in (n + 1)..Len(ls) : Holds(ls[j], "]")} \cup {Len(ls) + 1})

\* The positions of the double quotes of a text.
Quotes(s) == {k \in 1..Len(s) : s[k] = "\""}

\* The dependency pattern: optional whitespace, a double-quoted name,
\* optional constraint text.
DepShape(line) ==
    /\ Cardinality(Quotes(line)) >= 2
    /\ \A k \in 1..(Kth(Quotes(line), 1) - 1) : line[k] \in Whitespace
    /\ \A k \in (Kth(Quotes(line), 1) + 1)..(Kth(Quotes(line), 2) - 1) : line[k] \in NameChars

DepName(line) == SubSeq(line, Kth(Quotes(line), 1) + 1, Kth(Quotes(line), 2) - 1)

\* The constraint text: what follows the name on the line, after the
\* whitespace that separates them.
DepConstraint(line) ==
    LET rest == SubSeq(line, Kth(Quotes(line), 2) + 1, Len(line))
        text == {k \in 1..Len(rest) : rest[k] \notin Whitespace}
    IN  IF text = {} THEN <<>>
        ELSE SelectSeq(SubSeq(rest, Min(text), Len(rest)), LAMBDA c : c # "\n")

\* The entries a depends: line at n declares, in file order.
DeclaredDeps(ls, n) ==
    LET at == {j \in (n + 1)..(BlockEnd(ls, n) - 1) : DepShape(ls[j])}
    IN  [k \in 1..Cardinality(at) |->
            [name |-> DepName(ls[Kth(at, k)]),
             version |-> SelectSeq(Strip(DepConstraint(ls[Kth(at, k)]), {"{", "}", " "}),
                                   LAMBDA c : c # "\"")]]

Dependency(name, requirement) ==
    [purl |-> [type |-> "opam", name |-> Chars(name)], requirement |-> Chars(requirement),
     scope |-> "dependency", is_runtime |-> TRUE, is_optional |-> FALSE,
     is_resolved |-> FALSE]

----------------------------------------------------------------------------
(* C1 *)

\* C1: once the loop has handled a depends: line, the mapping holds under
\* depends exactly one entry per following line of the dependency pattern,
\* in file order, among the lines before the first following line with a ];
\* the name is the quoted name, the version the constraint text without its
\* surrounding braces and spaces and without double quotes.  The record has
\* one dependency per entry, in order, its purl made of the type opam and
\* the name, its requirement the entry's version.
C1_DependsEntries ==
    /\ (i >= 1 /\ IsField(lines[i], "depends"))
          => /\ pc # "parse_raised"
             /\ Get(opam_data, Chars("depends")) = Deps(DeclaredDeps(lines, i))
    /\ pc = "done"
          => LET refs == Get(opam_data, Chars("depends")).v
             IN  /\ Len(package.dependencies) = Len(refs)
                 /\ \A k \in 1..Len(refs) :
                       /\ package.dependencies[k].purl = [type |-> "opam", name |-> refs[k].name]
                       /\ package.dependencies[k].requirement = refs[k].version

\* The block of the module's sample, "ocaml" then "base-unix": both entries,
\* in order, with the versions of the sample's output.
C1_Witness ==
    /\ pc = "done"
    /\ package.dependencies =
          <<Dependency("ocaml", "= 4.11.0 & post"), Dependency("base-unix", "post")>>

----------------------------------------------------------------------------
(* C2 *)

\* C2: the record's description is the synopsis whenever the mapping holds a
\* non-empty synopsis, whatever the description and the two lengths are, and
\* the mapping's description (none when the key is absent) otherwise.
C2_SynopsisWins ==
    pc = "done"
       => LET synopsis == Get(opam_data, Chars("synopsis"))
          IN  IF synopsis.kind = "str" /\ Len(synopsis.v) > 0
              THEN package.description = synopsis
              ELSE package.description = Get(opam_data, Chars("description"))

\* A record built from a synopsis and a longer description: synopsis wins.
C2_Witness ==
    /\ pc = "done"
    /\ Get(opam_data, Chars("synopsis")) = Str(Chars("short"))
    /\ Get(opam_data, Chars("description")) = Str(Chars("longer text"))
    /\ package.description = Str(Chars("short"))

----------------------------------------------------------------------------
(* C6 *)

\* C6: once the loop has handled a src: line without raising, the mapping's
\* src is the cleaned text of the next line when the same-line value is
\* empty, and the cleaned same-line value otherwise (the next line unused);
\* the record's download_url is the mapping's src.
C6_Src ==
    /\ (i >= 1 /\ IsField(lines[i], "src") /\ pc # "parse_raised")
          => IF ValueOf(lines[i]) = <<>>
             THEN /\ i < Len(lines)
                  /\ Get(opam_data, Chars("src")) = Str(Cleaned(lines[i + 1]))
             ELSE Get(opam_data, Chars("src")) = Str(Cleaned(ValueOf(lines[i])))
    /\ pc = "done" => package.download_url = Get(opam_data, Chars("src"))

\* src: with nothing on its line, the URL on the next one.
C6_Witness ==
    /\ pc = "done"
    /\ lines = <<Line("src:"), Line("  \"https://x\"")>>
    /\ package.download_url = Str(Chars("https://x"))

----------------------------------------------------------------------------
(* C7 *)

CleanText(s) ==
    /\ \A k \in 1..Len(s) : s[k] \notin Quoting
    /\ s = <<>> \/ (s[1] \notin Whitespace /\ s[Len(s)] \notin Whitespace)

CleanValue(x) ==
    CASE x.kind = "str" -> CleanText(x.v)
      [] x.kind = "list" -> \A k \in 1..Len(x.v) : CleanText(x.v[k])
      [] x.kind = "deps" ->
            \A k \in 1..Len(x.v) : CleanText(x.v[k].name) /\ CleanText(x.v[k].version)
      [] OTHER -> TRUE

----------------------------------------------------------------------------
(* C9 *)

\* The last line the construct opened at line n reads: n itself when line n
\* opens none.
LastConsumed(ls, n) ==
    LET upTo(sub) == Min({j \in (n + 1)..Len(ls) : Contains(ls[j], sub)} \cup {Len(ls)})
    IN  IF IsField(ls[n], "description") THEN upTo(Chars("\"\"\""))
        ELSE IF IsField(ls[n], "authors") /\ Holds(ls[n], "[") THEN upTo(<<"]">>)
        ELSE IF IsField(ls[n], "depends") THEN BlockEnd(ls, n) - 1
        ELSE IF IsField(ls[n], "checksum") /\ Holds(ls[n], "[") THEN BlockEnd(ls, n) - 1
        ELSE IF IsField(ls[n], "src") /\ ValueOf(ls[n]) = <<>> THEN Min({n + 1, Len(ls)})
        ELSE n

\* The mapping of a parser that reads each line once: the lines a construct
\* has read are not read again as key: value lines.
RECURSIVE TopLevelParse(_, _, _)
TopLevelParse(ls, n, data) ==
    IF n > Len(ls) THEN data
    ELSE TopLevelParse(ls, LastConsumed(ls, n) + 1, ProcessLine(ls, n, data).data)

SameData(d, e) ==
    /\ DOMAIN d = DOMAIN e
    /\ \A k \in DOMAIN d : d[k].kind = e[k].kind /\ d[k].v = e[k].v

\* C9: a line read as the continuation of a description, an authors list, a
\* depends block, a checksum block or an empty src: is not read again as a
\* key: value line: it adds no key to the returned mapping and overwrites
\* no entry.
C9_ContinuationNotReparsed ==
    pc = "build" => SameData(opam_data, TopLevelParse(lines, 1, EmptyData))

----------------------------------------------------------------------------
(* C10 *)

\* C10: on a file without a checksum field parse_opam does not raise, also
\* when a construct is left open at the end of the file and when the last
\* line is a src: with an empty value.
C10_NeverRaises ==
    (\A n \in 1..Len(lines) : ~IsField(lines[n], "checksum")) => pc # "parse_raised"

----------------------------------------------------------------------------
(* C3 *)

Alnum ==
    LET cs == Chars("ABCDEFGHIJKLMNOPQRSTUVWXYZabcdefghijklmnopqrstuvwxyz0123456789")
    IN  {cs[k] : k \in 1..Len(cs)}

\* The place of the = of a text.
EqualsAt(t) == Min({k \in 1..Len(t) : t[k] = "="})

\* A digest written "alg=hex": an algorithm name and a digest, both of
\* letters and digits, in one pair of double quotes.
DigestShape(text) ==
    LET t == StripWS(text)
    IN  /\ Len(t) >= 5 /\ t[1] = "\"" /\ t[Len(t)] = "\""
        /\ Cardinality({k \in 1..Len(t) : t[k] = "="}) = 1
        /\ \A k \in 2..(Len(t) - 1) : t[k] \in Alnum \cup {"="}
        /\ EqualsAt(t) > 2 /\ EqualsAt(t) < Len(t) - 1
        /\ SubSeq(t, 2, EqualsAt(t) - 1) # Chars("checksum")

DigestAlg(text) == SubSeq(StripWS(text), 2, EqualsAt(StripWS(text)) - 1)

DigestHex(text) == SubSeq(StripWS(text), EqualsAt(StripWS(text)) + 1, Len(StripWS(text)) - 1)

\* Line n opens a checksum block: checksum: [ and then one digest a line.
ChecksumBlock(ls, n) ==
    /\ IsField(ls[n], "checksum")
    /\ ValueOf(ls[n]) = <<"[">>
    /\ \A j \in (n + 1)..(BlockEnd(ls, n) - 1) : DigestShape(ls[j])

\* The digest the block opened at line n gives last for the algorithm of its
\* line j.
LastDigest(ls, n, j) ==
    DigestHex(ls[Max({m \in (n + 1)..(BlockEnd(ls, n) - 1) : DigestAlg(ls[m]) = DigestAlg(ls[j])})])

\* The line is checksum: "alg=hex".
ChecksumOnLine(line) == IsField(line, "checksum") /\ DigestShape(ValueOf(line))

Is(x, y) == x.kind = y.kind /\ x.v = y.v

DigestsStored ==
    /\ (i >= 1 /\ ChecksumBlock(lines, i))
          => /\ pc # "parse_raised"
             /\ \A j \in (i + 1)..(BlockEnd(lines, i) - 1) :
                   Is(Get(opam_data, DigestAlg(lines[j])), Str(LastDigest(lines, i, j)))
    /\ (i >= 1 /\ ChecksumOnLine(lines[i]))
          => /\ pc # "parse_raised"
             /\ Is(Get(opam_data, DigestAlg(ValueOf(lines[i]))),
                   Str(DigestHex(ValueOf(lines[i]))))
    /\ pc = "done"
          => /\ package.sha1 = Get(opam_data, Chars("sha1"))
             /\ package.md5 = Get(opam_data, Chars("md5"))
             /\ package.sha256 = Get(opam_data, Chars("sha256"))
             /\ package.sha512 = Get(opam_data, Chars("sha512"))

\* C3 as stated: in both layouts every digest is stored under its own
\* algorithm key, the record's four checksum fields are the mapping's, and
\* the digest text is not stored under the key checksum.
C3_NotUnderChecksum ==
    /\ DigestsStored
    /\ (i >= 1 /\ ChecksumBlock(lines, i))
          => \A j \in (i + 1)..(BlockEnd(lines, i) - 1) :
                ~Contains(Get(opam_data, Chars("checksum")).v, DigestHex(lines[j]))
    /\ (i >= 1 /\ ChecksumOnLine(lines[i]))
          => ~Contains(Get(opam_data, Chars("checksum")).v, DigestHex(ValueOf(lines[i])))

\* C3, amended: in both layouts every digest is stored under its own
\* algorithm key and the record's four checksum fields are the mapping's;
\* the key checksum is stored too: it holds the empty string after a block
\* and the cleaned text alg=hex after a single-line value.
C3_DigestsByAlgorithm ==
    /\ DigestsStored
    /\ (i >= 1 /\ ChecksumBlock(lines, i))
          => Is(Get(opam_data, Chars("checksum")), Str(<<>>))
    /\ (i >= 1 /\ ChecksumOnLine(lines[i]))
          => Is(Get(opam_data, Chars("checksum")),
                Str(DigestAlg(ValueOf(lines[i])) \o <<"=">> \o DigestHex(ValueOf(lines[i]))))

\* A single-line checksum: the record's md5 is the digest, and the mapping
\* holds the text under checksum as well.
C3_Witness ==
    /\ pc = "done"
    /\ lines = <<Line("checksum: \"md5=ab\"")>>
    /\ package.md5 = Str(Chars("ab"))
    /\ Get(opam_data, Chars("checksum")) = Str(Chars("md5=ab"))

----------------------------------------------------------------------------
(* C8 *)

\* The block opened at line n has a line without = before its terminator.
BlockLacksEquals(ls, n) ==
    /\ IsField(ls[n], "checksum") /\ Holds(ls[n], "[")
    /\ \E j \in (n + 1)..(BlockEnd(ls, n) - 1) : ~Holds(ls[j], "=")

\* Line n is a single-line checksum whose value has no =.
LineLacksEquals(ls, n) ==
    /\ IsField(ls[n], "checksum") /\ ~Holds(ls[n], "[")
    /\ ~Holds(ValueOf(ls[n]), "=")

----------------------------------------------------------------------------
(* C4 *)

\* A value wrapped in [ ] without the brackets.
Unwrapped(value) ==
    IF Len(value) >= 2 /\ value[1] = "[" /\ value[Len(value)] = "]"
    THEN SubSeq(value, 2, Len(value) - 1)
    ELSE value

\* The text is double-quoted strings separated by one space.
QuotedList(w) ==
    LET n == Cardinality(Quotes(w))
    IN  /\ n >= 2 /\ n % 2 = 0
        /\ 1 \in Quotes(w) /\ Len(w) \in Quotes(w)
        /\ \A m \in 1..((n \div 2) - 1) :
              /\ Kth(Quotes(w), 2 * m + 1) = Kth(Quotes(w), 2 * m) + 2
              /\ w[Kth(Quotes(w), 2 * m) + 1] = " "

\* Its strings, in order.
QuotedStrings(w) ==
    [m \in 1..(Cardinality(Quotes(w)) \div 2) |->
        SubSeq(w, Kth(Quotes(w), 2 * m - 1) + 1, Kth(Quotes(w), 2 * m) - 1)]

\* The first string does not begin and the last does not end with a space
\* or a bracket, and of two or more strings the first and the last are not
\* empty.
EndsKept(ss) ==
    LET first == ss[1]
        last == ss[Len(ss)]
        edge == {" ", "[", "]"}
    IN  /\ first = <<>> \/ first[1] \notin edge
        /\ last = <<>> \/ last[Len(last)] \notin edge
        /\ Len(ss) >= 2 => (first # <<>> /\ last # <<>>)

\* The record's parties: an author party, name set, per author of the
\* mapping, then a maintainer party, email set and no name, per maintainer.
PartiesInOrder ==
    pc = "done"
       => LET authors == Get(opam_data, Chars("authors")).v
              maintainers == Get(opam_data, Chars("maintainer")).v
          IN  /\ Len(package.parties) = Len(authors) + Len(maintainers)
              /\ \A k \in 1..Len(authors) :
                    package.parties[k] = [type |-> "person", name |-> Str(authors[k]),
                                          email |-> NoneVal, role |-> "author"]
              /\ \A k \in 1..Len(maintainers) :
                    package.parties[Len(authors) + k] =
                        [type |-> "person", name |-> NoneVal,
                         email |-> Str(maintainers[k]), role |-> "maintainer"]

\* C4 as stated: a maintainer value of n >= 1 double-quoted strings, wrapped
\* in [ ] or not, gives exactly those n strings as the maintainers, which
\* the record lists in order after the authors.
C4_AnyStrings ==
    /\ (i >= 1 /\ IsField(lines[i], "maintainer")
             /\ QuotedList(Unwrapped(ValueOf(lines[i]))))
          => Is(Get(opam_data, Chars("maintainer")),
                List(QuotedStrings(Unwrapped(ValueOf(lines[i])))))
    /\ PartiesInOrder

\* C4, amended: the same, for strings of which the first does not begin and
\* the last does not end with a space or a bracket and, when n >= 2, neither
\* of the two is empty.
C4_Maintainers ==
    /\ (i >= 1 /\ IsField(lines[i], "maintainer")
             /\ QuotedList(Unwrapped(ValueOf(lines[i])))
             /\ EndsKept(QuotedStrings(Unwrapped(ValueOf(lines[i])))))
          => Is(Get(opam_data, Chars("maintainer")),
                List(QuotedStrings(Unwrapped(ValueOf(lines[i])))))
    /\ PartiesInOrder

\* An author and two maintainers: three parties, the author first.
C4_Witness ==
    /\ pc = "done"
    /\ package.parties =
          <<[type |-> "person", name |-> Str(Chars("A")), email |-> NoneVal, role |-> "author"],
            [type |-> "person", name |-> NoneVal, email |-> Str(Chars("a@x")), role |-> "maintainer"],
            [type |-> "person", name |-> NoneVal, email |-> Str(Chars("b@x")), role |-> "maintainer"]>>

----------------------------------------------------------------------------
(* C5 *)

\* Line n opens an authors list spread over the following lines: authors: [
\* then one double-quoted string a line, then a line that is ].
AuthorsBlock(ls, n) ==
    /\ ValueOf(ls[n]) = <<"[">>
    /\ BlockEnd(ls, n) <= Len(ls) /\ BlockEnd(ls, n) > n + 1
    /\ StripWS(ls[BlockEnd(ls, n)]) = <<"]">>
    /\ \A j \in (n + 1)..(BlockEnd(ls, n) - 1) :
          QuotedList(StripWS(ls[j])) /\ Cardinality(Quotes(ls[j])) = 2

\* C5: the mapping's authors are exactly the double-quoted strings of the
\* field, in order, when they stand on the field's line, in brackets or
\* not, and when they stand one a line between authors: [ and ].
C5_AuthorsList ==
    (i >= 1 /\ IsField(lines[i], "authors"))
       => /\ QuotedList(Unwrapped(ValueOf(lines[i])))
                => Is(Get(opam_data, Chars("authors")),
                      List(QuotedStrings(Unwrapped(ValueOf(lines[i])))))
          /\ AuthorsBlock(lines, i)
                => Is(Get(opam_data, Chars("authors")),
                      List([k \in 1..(BlockEnd(lines, i) - i - 1) |->
                               QuotedStrings(StripWS(lines[i + k]))[1]]))

====
